---- MODULE Spec2Model ----
(***************************************************************************)
(* Outer parameter-inference algorithms of pyfilter: NESS, SMC2 and the    *)
(* NESSMC2 hybrid, driving an inner filter over M parameter particles.     *)
(*                                                                         *)
(* Log-weights and log-likelihoods are integers in units of ln 2, so a     *)
(* weight exp(w) is the integer 2^w after subtracting the minimum, and     *)
(* ESS = (sum w)^2 / sum w^2 is compared with threshold*M exactly.         *)
(***************************************************************************)
EXTENDS Integers, Sequences, FiniteSets, TLC

\* ---------------------------------------------------------------- bounds
Particles == 2          \* M, outer (parameter) particles
StateParticles == 2     \* N, state particles of the inner filter at start
MaxSteps == 2           \* observations per run
MaxCalls == 3           \* calls made on one model or distribution

IdxM == 1..Particles
Zeros == [i \in IdxM |-> 0]
OneLow(k, v) == [i \in IdxM |-> IF i = k THEN v ELSE 0]

\* draws of the random sources and inputs, enumerated over small sets
ObsRuns == {[k \in 1..MaxSteps |-> k], [k \in 1..MaxSteps |-> 1 + (k % 2)]}
TVals == 0..1                                   \* unconstrained parameter values
TVecs == {Zeros, [i \in IdxM |-> 1], [i \in IdxM |-> i % 2]}
LLVecs == {Zeros, OneLow(1, 0 - 1), OneLow(Particles, 0 - 2)}
IndVecs == {[i \in IdxM |-> i], [i \in IdxM |-> 1],
            [i \in IdxM |-> Particles + 1 - i]} \* ancestor indices
LogUVecs == {[i \in IdxM |-> 0 - 1],
             [i \in IdxM |-> 0 - (1 + 2 * (i % 2))]}   \* log of uniforms
Priors == {[v \in TVals |-> 0 - v]}                \* log prior density by value
LogPdfs == {[v \in TVals |-> 0], [v \in TVals |-> 0 - v]}

\* ------------------------------------------------------------- helpers
RECURSIVE SumSeq(_)
SumSeq(s) == IF s = <<>> THEN 0 ELSE Head(s) + SumSeq(Tail(s))

RECURSIVE Flatten(_)
Flatten(ss) == IF ss = <<>> THEN <<>> ELSE Head(ss) \o Flatten(Tail(ss))

MinOf(w) == CHOOSE m \in {w[i] : i \in DOMAIN w} : \A i \in DOMAIN w : m <= w[i]

VecAdd(a, b) == [i \in DOMAIN a |-> a[i] + b[i]]

Reindex(v, inds) == [i \in DOMAIN inds |-> v[inds[i]]]

\* exp(w - const) of normalize(): the common factor cancels in the ESS
Unnorm(w) == [i \in DOMAIN w |-> 2 ^ (w[i] - MinOf(w))]

\* get_ess(w) with ESS = 1 / sum(normalized^2), as the pair <<(sum u)^2, sum u^2>>
get_ess(w) ==
  LET u == Unnorm(w)
  IN  <<SumSeq(u) * SumSeq(u), SumSeq([i \in DOMAIN u |-> u[i] * u[i]])>>

\* ess < thr * m, for the fraction ess and the threshold thr = <<num, den>>
BadEssBelow(ess, thr, m) == thr[2] * ess[1] <= thr[1] * m * ess[2]

EssBelow(ess, thr, m) == thr[2] * ess[1] < thr[1] * m * ess[2]

\* _w_rec = torch.zeros_like(_w_rec)
BadZerosLike(w) == w

ZerosLike(w) == [i \in DOMAIN w |-> 0]

\* ------------------------------------------------------------ inner filter
\* one filter object: particle counts (M, N), the parameter particles of its
\* model, and the per-step record of incremental log-likelihoods s_ll
NewFilter(m, n, theta) ==
  [kind |-> "particle", particles |-> <<m, n>>, theta |-> theta, s_ll |-> <<>>,
   init |-> FALSE]

FilterReset(f) == [f EXCEPT !.s_ll = <<>>, !.init = FALSE]

FilterInitialize(f) == [f EXCEPT !.init = TRUE]

\* filter(y): one step, appending the incremental log-likelihood ll
FilterStep(f, ll) == [f EXCEPT !.s_ll = Append(@, ll)]

\* longfilter(ys): one step per observation, lls[t] the draw of step t
RECURSIVE FilterLong(_, _)
FilterLong(f, lls) ==
  IF lls = <<>> THEN f ELSE FilterLong(FilterStep(f, Head(lls)), Tail(lls))

\* resample(indices, entire_history)
FilterResample(f, inds, entire) ==
  [f EXCEPT !.theta = Reindex(@, inds),
            !.s_ll  = IF entire
                      THEN [t \in DOMAIN @ |-> Reindex(@[t], inds)]
                      ELSE @]

\* exchange(other, mask): the particles flagged in mask are taken from other
FilterExchange(f, g, mask) ==
  [f EXCEPT !.theta = [i \in DOMAIN @ |-> IF mask[i] THEN g.theta[i] ELSE @[i]],
            !.s_ll  = [t \in DOMAIN @ |->
                         [i \in DOMAIN @[t] |->
                            IF mask[i] /\ t \in DOMAIN g.s_ll
                            THEN g.s_ll[t][i] ELSE @[t][i]]]]

\* ------------------------------------------------------------------ state
VARIABLES
  pc,        \* position of the running call: "new", "idle", or a stage of update
  who,       \* the algorithm object whose update is running: "ness" or "smc2"
  yin,       \* the observation passed to the running update
  ret,       \* where the running update returns to: "idle" or "loop"
  err,       \* the exception that ended the run, or "none"
  w_rec,     \* _w_rec of each algorithm object: outer log-weights
  th,        \* _th of each algorithm object, as <<num, den>>
  thArg,     \* the threshold argument the constructor was given
  kern,      \* the jitter kernel chosen by NESS.__init__: "cont" or "disc"
  filt,      \* _filter of each object: a reference into heap
  heap,      \* the filter objects
  prior,     \* log-density table of the parameter prior
  td,        \* SMC2._td: the observation buffer
  data,      \* the array handed to NESSMC2.longfilter
  idx,       \* loop index of NESSMC2.longfilter
  hs,        \* NESSMC2._hs, as <<num, den>>
  switched,  \* NESSMC2._switched
  ior,       \* _ior of the wrapped SMC2: observations it has filtered
  disp,      \* the algorithm each observation of the run was dispatched to
  shakes,    \* loop indices at which the handshake resample was done
  obs,       \* the observations of the run, in arrival order
  steps,     \* update calls made so far
  trace,     \* stages the running (or last) update has executed
  entry,     \* snapshot taken when the running (or last) update was called
  jitW,      \* log-weights the jitter kernel was given in that update
  fed,       \* observations handed to the live inner filter, in order
  rj,        \* record of the last rejuvenation, or the empty record
  mod,       \* a BaseModel object: construction state, noise, _theta, cache
  dst,       \* a Distribution object: _values, bounds and transform
  call       \* the last library call: operation, arguments, result

vars == <<pc, who, yin, ret, err, w_rec, th, thArg, kern, filt, heap, prior, td, data, idx,
          hs, switched, ior, disp, shakes, obs, steps, trace, entry, jitW, fed, rj,
          mod, dst, call>>

\* the objects of the model and distribution layer
libVars == <<mod, dst, call>>

\* the state of the outer algorithms
algVars == <<pc, who, yin, ret, err, w_rec, th, thArg, kern, filt, heap, prior, td, data,
             idx, hs, switched, ior, disp, shakes, obs, steps, trace, entry, jitW, fed, rj>>

NoCall == [op |-> "none"]

\* no outer algorithm constructed
AlgIdle ==
  /\ pc = "none" /\ who = "none" /\ yin = 0 /\ ret = "none" /\ err = "none"
  /\ w_rec = <<>> /\ th = <<>> /\ thArg = "default" /\ kern = "none"
  /\ filt = <<>> /\ heap = <<>> /\ prior = <<>> /\ td = [kind |-> "none", val |-> <<>>]
  /\ data = <<>> /\ idx = 0 /\ hs = <<0, 1>> /\ switched = FALSE /\ ior = 0
  /\ disp = <<>> /\ shakes = <<>> /\ obs = <<>> /\ steps = 0 /\ trace = <<>>
  /\ entry = [w |-> <<>>] /\ jitW = <<>> /\ fed = <<>> /\ rj = [done |-> FALSE]

\* no model and no distribution constructed
LibIdle == mod = [state |-> "none"] /\ dst = [state |-> "none"] /\ call = NoCall

hybVars == <<data, idx, hs, switched, ior, disp, shakes>>

cfgVars == <<who, ret, th, thArg, kern, prior, obs, libVars>>

Objs == {"ness", "smc2", "hyb"}
NoRj == [done |-> FALSE]

Live(o) == heap[filt[o]]

\* what a call of update on object o finds: weights, parameters, filter
EntryOf(o) == [w |-> w_rec[o], theta |-> Live(o).theta, fid |-> filt[o],
               hist |-> Len(Live(o).s_ll), s_ll |-> Live(o).s_ll]
NoEntry == [w |-> Zeros, theta |-> Zeros, fid |-> 0, hist |-> 0, s_ll |-> <<>>]

\* position after stage s of a handler whose stages are order
StageAfter(order, s) ==
  LET k == CHOOSE j \in DOMAIN order : order[j] = s
  IN  IF k = Len(order) THEN ret ELSE order[k + 1]

\* -------------------------------------------------------------------- NESS
NessDefaultThreshold == <<9, 10>>

Smc2DefaultThreshold == <<1, 5>>

\* threshold argument of a constructor: "default" when omitted
ThresholdArgs == {"default", <<9, 10>>}

\* NESS.__init__: _w_rec, _th and the kernel
NessInitTh(arg) == IF arg = "default" THEN NessDefaultThreshold ELSE arg

NessInitKernel(shrinkage) == IF shrinkage = "none" THEN "cont" ELSE "disc"

\* the stages of NESS.update, in program order
BadNessOrder == <<"filter", "weight", "jitter", "resample">>

NessOrder == <<"jitter", "filter", "weight", "resample">>

\* kernel(x, w): the jittered unconstrained values.  The continuous kernel adds
\* noise to every particle; the discrete kernel replaces the particles whose
\* indicator is 1 by a draw and keeps the others
Jittered(kind, t, ind, draw) ==
  IF kind = "cont" THEN draw
  ELSE [i \in DOMAIN t |-> IF ind[i] = 1 THEN draw[i] ELSE t[i]]

NessInitialize ==
  /\ pc = "new" /\ who = "ness"
  /\ \E tv \in TVecs :
       heap' = [heap EXCEPT ![filt["ness"]] =
                  FilterInitialize([@ EXCEPT !.theta = tv])]
  /\ pc' = "idle"
  /\ UNCHANGED <<yin, err, w_rec, filt, td, steps, trace, entry, jitW, fed, rj>>
  /\ UNCHANGED cfgVars
  /\ UNCHANGED hybVars

\* entry of NESS.update(y)
NessUpdate(y) ==
  /\ pc = "idle" /\ who = "ness" /\ err = "none"
  /\ pc' = Head(NessOrder)
  /\ yin' = y
  /\ steps' = steps + 1
  /\ trace' = <<>>
  /\ entry' = EntryOf("ness")
  /\ jitW' = <<>>
  /\ UNCHANGED <<err, w_rec, filt, heap, td, fed, rj>>
  /\ UNCHANGED cfgVars

\* p_apply(lambda x: kernel(x, _w_rec), transformed=True)
NessJitter ==
  /\ pc = "jitter" /\ who = "ness"
  /\ \E draw \in TVecs, ind \in {Zeros, OneLow(1, 1)} :
       heap' = [heap EXCEPT ![filt["ness"]].theta = Jittered(kern, @, ind, draw)]
  /\ jitW' = w_rec["ness"]
  /\ trace' = Append(trace, "jitter")
  /\ pc' = StageAfter(NessOrder, "jitter")
  /\ UNCHANGED <<yin, err, w_rec, filt, td, steps, entry, fed, rj>>
  /\ UNCHANGED cfgVars

\* _filter.filter(y)
AlgFilter(o, order) ==
  /\ pc = "filter" /\ who = o
  /\ \E ll \in LLVecs :
       heap' = [heap EXCEPT ![filt[o]] = FilterStep(@, ll)]
  /\ fed' = Append(fed, yin)
  /\ trace' = Append(trace, "filter")
  /\ pc' = StageAfter(order, "filter")
  /\ UNCHANGED <<yin, err, w_rec, filt, steps, entry, jitW, rj>>
  /\ UNCHANGED cfgVars

\* _w_rec += _filter.s_ll[-1]
AlgWeight(o, order) ==
  /\ pc = "weight" /\ who = o
  /\ w_rec' = [w_rec EXCEPT ![o] = LET h == Live(o).s_ll
                                   IN  IF h = <<>> THEN @ ELSE VecAdd(@, h[Len(h)])]
  /\ trace' = Append(trace, "weight")
  /\ pc' = StageAfter(order, "weight")
  /\ UNCHANGED <<yin, err, filt, heap, steps, entry, jitW, fed, rj>>
  /\ UNCHANGED cfgVars

NessFilter == AlgFilter("ness", NessOrder) /\ UNCHANGED td

NessWeight == AlgWeight("ness", NessOrder) /\ UNCHANGED td

\* entire_history of the outer resample of NESS.update
BadNessEntireHistory == TRUE

NessEntireHistory == FALSE

\* ess = get_ess(_w_rec); if ess < _th * _particles[0]: resample, zero weights
NessResample ==
  /\ pc = "resample" /\ who = "ness"
  /\ IF EssBelow(get_ess(w_rec["ness"]), th["ness"], Live("ness").particles[1])
     THEN \E inds \in IndVecs :
            /\ heap' = [heap EXCEPT ![filt["ness"]] = FilterResample(@, inds, NessEntireHistory)]
            /\ w_rec' = [w_rec EXCEPT !["ness"] = ZerosLike(@)]
            /\ trace' = Append(trace, "resample")
     ELSE /\ UNCHANGED <<heap, w_rec>>
          /\ trace' = Append(trace, "keep")
  /\ pc' = StageAfter(NessOrder, "resample")
  /\ UNCHANGED <<yin, err, filt, td, steps, entry, jitW, fed, rj>>
  /\ UNCHANGED cfgVars

NessStages ==
  \/ steps < Len(obs) /\ NessUpdate(obs[steps + 1]) /\ UNCHANGED hybVars
  \/ NessJitter /\ UNCHANGED hybVars
  \/ NessFilter /\ UNCHANGED hybVars
  \/ NessWeight /\ UNCHANGED hybVars
  \/ NessResample /\ UNCHANGED hybVars

\* state after NESS(filter_, particles, threshold, shrinkage)
NessConstructed(arg, shrinkage, kind) ==
  /\ pc = "new" /\ who = "ness" /\ yin = 0 /\ err = "none"
  /\ w_rec = [o \in Objs |-> Zeros]
  /\ thArg = arg
  /\ th = [o \in Objs |-> NessInitTh(arg)]
  /\ kern = NessInitKernel(shrinkage)
  /\ filt = [o \in Objs |-> 1]
  /\ heap = <<[NewFilter(Particles, StateParticles, Zeros) EXCEPT !.kind = kind]>>
  /\ td = [kind |-> "tuple", val |-> <<>>]
  /\ data = <<>> /\ idx = 0 /\ hs = <<0, 1>> /\ switched = FALSE /\ ior = 0
  /\ disp = <<>> /\ shakes = <<>> /\ ret = "idle"
  /\ steps = 0 /\ trace = <<>> /\ entry = NoEntry /\ jitW = <<>> /\ fed = <<>>
  /\ rj = NoRj
  /\ LibIdle

InitNess ==
  /\ \E arg \in ThresholdArgs, shrinkage \in {"none", "some"} :
       NessConstructed(arg, shrinkage, "particle")
  /\ prior \in Priors /\ obs \in ObsRuns

NextNess ==
  \/ NessInitialize
  \/ NessStages

SpecNess == InitNess /\ [][NextNess]_vars

\* -------------------------------------------------------------------- SMC2
\* SMC2.__init__: the threshold overrides the one NESS.__init__ stored
Smc2InitTh(arg) == IF arg = "default" THEN Smc2DefaultThreshold ELSE arg

\* the stages of SMC2.update, in program order
BadSmc2Order == <<"check", "append", "filter", "weight">>

Smc2Order == <<"append", "filter", "weight", "check">>

\* the contents of the buffer: a tuple of its own, or the caller's array
TdVals == IF td.kind = "tuple" THEN td.val ELSE data

\* _td += (y,): a tuple is extended by y; an array is added to in place
BadIAdd(kind, val, y) ==
  IF kind = "tuple" THEN <<y>> \o val ELSE [i \in DOMAIN val |-> val[i] + y]

IAdd(kind, val, y) ==
  IF kind = "tuple" THEN Append(val, y) ELSE [i \in DOMAIN val |-> val[i] + y]

\* torch.cat(s_ll).reshape(rows, -1).sum(0)
ReshapeFails(s_ll, rows) == rows = 0 \/ Len(Flatten(s_ll)) % rows # 0

Totals(s_ll, rows) ==
  LET flat == Flatten(s_ll)
      cols == Len(flat) \div rows
  IN  [j \in 1..cols |-> SumSeq([r \in 1..rows |-> flat[(r - 1) * cols + j]])]

\* _eval_kernel(params, dist, n_params, n_dist) with log_prob table lq of dist:
\* n_dist.log_prob(p_vals) - dist.log_prob(n_p_vals)
BadEvalKernel(params, n_params, lq) ==
  [i \in DOMAIN params |-> lq[n_params[i]] - lq[params[i]]]

EvalKernel(params, n_params, lq) ==
  [i \in DOMAIN params |-> lq[params[i]] - lq[n_params[i]]]

\* p_prior() of a model whose parameter particles are theta
PPrior(theta) == [i \in DOMAIN theta |-> prior[theta[i]]]

\* quotient = t_ll - ll[inds]
BadQuotient(t_ll, ll, inds) == [i \in DOMAIN inds |-> t_ll[i] - ll[i]]

Quotient(t_ll, ll, inds) == [i \in DOMAIN inds |-> t_ll[i] - ll[inds[i]]]

\* toaccept = u < quotient + plogquot + kernel
ToAccept(logu, quotient, plogquot, kernel) ==
  [i \in DOMAIN logu |-> logu[i] < quotient[i] + plogquot[i] + kernel[i]]

Count(mask) == Cardinality({i \in DOMAIN mask : mask[i]})

\* toaccept.sum() < 0.2 * toaccept.shape[0]
TooFewAccepted(mask) == 5 * Count(mask) < Len(mask)

\* _rejuvenate up to the exchange: the live filter after it, and the mask
Rejuvenated(f, rows, inds, cand, clls, logu, lq) ==
  LET ll       == Totals(f.s_ll, rows)
      f1       == FilterResample(f, inds, TRUE)
      t0       == FilterInitialize(FilterReset(f1))
      t1       == [t0 EXCEPT !.theta = cand]
      t_filt   == FilterLong(t1, clls)
      t_ll     == Totals(t_filt.s_ll, rows)
      quotient == Quotient(t_ll, ll, inds)
      plogquot == VecAdd(PPrior(t_filt.theta), [i \in IdxM |-> 0 - PPrior(f1.theta)[i]])
      kernel   == EvalKernel(f1.theta, t_filt.theta, lq)
      toaccept == ToAccept(logu, quotient, plogquot, kernel)
  IN  [filter |-> FilterExchange(f1, t_filt, toaccept), toaccept |-> toaccept]

\* _increase_states: the filter that replaces the live one
BadIncreased(f, m, lls) == FilterLong(FilterInitialize(FilterReset(f)), lls)

Increased(f, m, lls) ==
  FilterLong(FilterInitialize(
    [FilterReset(f) EXCEPT !.particles = <<m, 2 * f.particles[2]>>]), lls)

\* draws of a longfilter run over n observations
LongDraws(n) ==
  {[t \in 1..n |-> Zeros], [t \in 1..n |-> OneLow(Particles, 0 - 2)],
   [t \in 1..n |-> [i \in IdxM |-> 0 - 2]]}

Smc2Initialize ==
  /\ pc = "new" /\ who = "smc2"
  /\ \E tv \in TVecs :
       heap' = [heap EXCEPT ![filt["smc2"]] =
                  FilterInitialize([@ EXCEPT !.theta = tv])]
  /\ pc' = "idle"
  /\ UNCHANGED data
  /\ UNCHANGED <<yin, err, w_rec, filt, td, steps, trace, entry, jitW, fed, rj>>
  /\ UNCHANGED cfgVars

\* entry of SMC2.update(y)
Smc2Update(y) ==
  /\ pc = "idle" /\ who = "smc2" /\ err = "none"
  /\ pc' = Head(Smc2Order)
  /\ yin' = y
  /\ steps' = steps + 1
  /\ trace' = <<>>
  /\ entry' = EntryOf("smc2")
  /\ rj' = NoRj
  /\ UNCHANGED <<err, w_rec, filt, heap, td, jitW, fed>>
  /\ UNCHANGED cfgVars

\* _td += (y,)
Smc2Append ==
  /\ pc = "append" /\ who = "smc2"
  /\ IF td.kind = "tuple"
     THEN /\ td' = [td EXCEPT !.val = IAdd("tuple", @, yin)]
          /\ UNCHANGED data
     ELSE /\ data' = IAdd("array", data, yin)
          /\ UNCHANGED td
  /\ trace' = Append(trace, "append")
  /\ pc' = StageAfter(Smc2Order, "append")
  /\ UNCHANGED <<yin, err, w_rec, filt, heap, steps, entry, jitW, fed, rj>>
  /\ UNCHANGED cfgVars

Smc2Filter == AlgFilter("smc2", Smc2Order) /\ UNCHANGED <<td, data>>

Smc2Weight == AlgWeight("smc2", Smc2Order) /\ UNCHANGED <<td, data>>

\* ess = get_ess(_w_rec); if ess < _th * _w_rec.shape[0]: _rejuvenate()
Smc2Check ==
  /\ pc = "check" /\ who = "smc2"
  /\ LET f    == Live("smc2")
         rows == Len(TdVals)
     IN
     IF ~EssBelow(get_ess(w_rec["smc2"]), th["smc2"], Len(w_rec["smc2"]))
     THEN /\ trace' = Append(trace, "keep")
          /\ pc' = StageAfter(Smc2Order, "check")
          /\ UNCHANGED <<heap, w_rec, rj, err>>
     ELSE IF ReshapeFails(f.s_ll, rows)
     THEN /\ err' = "RuntimeError"
          /\ trace' = Append(trace, "raise")
          /\ pc' = ret
          /\ UNCHANGED <<heap, w_rec, rj>>
     ELSE \E inds \in IndVecs :
          IF \E i \in IdxM : inds[i] > Len(Totals(f.s_ll, rows))
          THEN /\ err' = "IndexError"
               /\ trace' = Append(trace, "raise")
               /\ pc' = ret
               /\ heap' = [heap EXCEPT ![filt["smc2"]] = FilterResample(@, inds, TRUE)]
               /\ UNCHANGED <<w_rec, rj>>
          ELSE \E cand \in TVecs, clls \in LongDraws(rows), logu \in LogUVecs,
                  lq \in LogPdfs :
               \E r \in {Rejuvenated(f, rows, inds, cand, clls, logu, lq)} :
                   /\ heap' = [heap EXCEPT ![filt["smc2"]] = r.filter]
                   /\ w_rec' = [w_rec EXCEPT !["smc2"] = ZerosLike(@)]
                   /\ rj' = [done |-> TRUE, pre |-> f, fid |-> filt["smc2"],
                             inds |-> inds, cand |-> cand, clls |-> clls,
                             logu |-> logu, lq |-> lq, toaccept |-> r.toaccept,
                             increased |-> FALSE]
                   /\ trace' = Append(trace, "rejuvenate")
                   /\ pc' = IF TooFewAccepted(r.toaccept)
                            THEN "increase" ELSE StageAfter(Smc2Order, "check")
                   /\ UNCHANGED err
  /\ UNCHANGED <<yin, filt, td, data, steps, entry, jitW, fed>>
  /\ UNCHANGED cfgVars

\* _increase_states(), called when fewer than 20% were accepted
Smc2Increase ==
  /\ pc = "increase" /\ who = "smc2"
  /\ IF Live("smc2").kind = "kalman"
     THEN UNCHANGED <<heap, filt, rj>>
     ELSE \E lls \in LongDraws(Len(TdVals)) :
            /\ heap' = Append(heap, Increased(Live("smc2"), Len(w_rec["smc2"]), lls))
            /\ filt' = [filt EXCEPT !["smc2"] = Len(heap) + 1]
            /\ rj' = [rj EXCEPT !.increased = TRUE]
  /\ trace' = Append(trace, "increase")
  /\ pc' = ret
  /\ UNCHANGED <<yin, err, w_rec, td, data, steps, entry, jitW, fed>>
  /\ UNCHANGED cfgVars

Smc2Stages ==
  \/ steps < Len(obs) /\ Smc2Update(obs[steps + 1]) /\ UNCHANGED hybVars
  \/ Smc2Append /\ UNCHANGED <<idx, hs, switched, ior, disp, shakes>>
  \/ Smc2Filter /\ UNCHANGED <<idx, hs, switched, ior, disp, shakes>>
  \/ Smc2Weight /\ UNCHANGED <<idx, hs, switched, ior, disp, shakes>>
  \/ Smc2Check /\ UNCHANGED <<idx, hs, switched, ior, disp, shakes>>
  \/ Smc2Increase /\ UNCHANGED <<idx, hs, switched, ior, disp, shakes>>

\* state after SMC2(filter_, particles, threshold)
InitSmc2 ==
  /\ \E arg \in ThresholdArgs, kind \in {"particle", "kalman"} :
       /\ thArg = arg
       /\ pc = "new" /\ who = "smc2" /\ yin = 0 /\ err = "none"
       /\ w_rec = [o \in Objs |-> Zeros]
       /\ th = [o \in Objs |-> Smc2InitTh(arg)]
       /\ kern = NessInitKernel("none")
       /\ filt = [o \in Objs |-> 1]
       /\ heap = <<[NewFilter(Particles, StateParticles, Zeros) EXCEPT !.kind = kind]>>
  /\ prior \in Priors /\ obs \in ObsRuns
  /\ td = [kind |-> "tuple", val |-> <<>>]
  /\ data = <<>> /\ idx = 0 /\ hs = <<0, 1>> /\ switched = FALSE /\ ior = 0
  /\ disp = <<>> /\ shakes = <<>> /\ ret = "idle"
  /\ steps = 0 /\ trace = <<>> /\ entry = NoEntry /\ jitW = <<>> /\ fed = <<>>
  /\ rj = NoRj
  /\ LibIdle

NextSmc2 ==
  \/ Smc2Initialize /\ UNCHANGED <<idx, hs, switched, ior, disp, shakes>>
  \/ Smc2Stages

SpecSmc2 == InitSmc2 /\ [][NextSmc2]_vars

\* ----------------------------------------------------------------- NESSMC2
HybDefaultHandshake == <<1, 5>>

HybSmc2DefaultThreshold == <<2, 5>>

HandshakeArgs == {"default", <<1, 2>>, <<1, 1>>}

HybInitHs(arg) == IF arg = "default" THEN HybDefaultHandshake ELSE arg

\* sm2k.pop('threshold', 0.4)
HybSmc2Th(arg) == IF arg = "default" THEN HybSmc2DefaultThreshold ELSE arg

\* the arrays handed to longfilter
HybRuns ==
  UNION {{[k \in 1..n |-> k], [k \in 1..n |-> 1 + (k % 2)]} : n \in 1..(MaxSteps + 1)}

\* _smc2._ior < _hs * _td.shape[0]
BadToSmc2(n, h, len) == n * h[2] <= h[1] * len

ToSmc2(n, h, len) == n * h[2] < h[1] * len

\* if not self._switched
BadNeedsHandshake(sw) == TRUE

NeedsHandshake(sw) == ~sw

\* entire_history of the handshake's resample(inds)
HandshakeEntire == FALSE

\* NESS.initialize, inherited: parameter particles from the prior, filter
\* initialized
HybInitialize ==
  /\ pc = "new" /\ who = "hyb"
  /\ \E tv \in TVecs :
       heap' = [heap EXCEPT ![filt["hyb"]] =
                  FilterInitialize([@ EXCEPT !.theta = tv])]
  /\ pc' = "idle"
  /\ UNCHANGED <<yin, err, w_rec, filt, td, steps, trace, entry, jitW, fed, rj>>
  /\ UNCHANGED cfgVars
  /\ UNCHANGED hybVars

\* longfilter(data) up to the loop: self._td = self._smc2._td = data
HybLongfilter ==
  /\ pc = "idle" /\ who = "hyb" /\ td.kind = "tuple"
  /\ td' = [kind |-> "array", val |-> <<>>]
  /\ idx' = 0
  /\ pc' = "loop"
  /\ UNCHANGED <<yin, err, w_rec, filt, heap, steps, trace, entry, jitW, fed, rj,
                 data, hs, switched, ior, disp, shakes, who, ret, th, thArg,
                 kern, prior, obs, libVars>>

\* one pass of the loop: self.filter(data[i]), up to the call of the wrapped
\* algorithm's filter
HybFilter ==
  /\ pc = "loop" /\ err = "none" /\ idx < Len(data)
  /\ idx' = idx + 1
  /\ yin' = data[idx + 1]
  /\ steps' = steps + 1
  /\ trace' = <<>>
  /\ jitW' = <<>>
  /\ rj' = NoRj
  /\ IF ToSmc2(ior, hs, Len(TdVals))
     THEN /\ who' = "smc2"
          /\ pc' = Head(Smc2Order)
          /\ ior' = ior + 1
          /\ disp' = Append(disp, "smc2")
          /\ entry' = EntryOf("smc2")
          /\ UNCHANGED <<switched, shakes, filt, heap, w_rec>>
     ELSE /\ who' = "ness"
          /\ pc' = Head(NessOrder)
          /\ disp' = Append(disp, "ness")
          /\ UNCHANGED ior
          /\ IF NeedsHandshake(switched)
             THEN \E inds \in IndVecs :
                    /\ switched' = TRUE
                    /\ shakes' = Append(shakes, idx + 1)
                    /\ heap' = [heap EXCEPT ![filt["smc2"]] =
                                  FilterResample(@, inds, HandshakeEntire)]
                    /\ filt' = [filt EXCEPT !["hyb"] = filt["smc2"],
                                            !["ness"] = filt["smc2"]]
                    /\ w_rec' = [w_rec EXCEPT !["hyb"] = ZerosLike(w_rec["smc2"])]
                    /\ entry' = [w |-> w_rec["ness"],
                                 theta |-> Reindex(Live("smc2").theta, inds),
                                 fid |-> filt["smc2"],
                                 hist |-> Len(Live("smc2").s_ll),
                                 s_ll |-> Live("smc2").s_ll]
             ELSE /\ UNCHANGED <<switched, shakes, heap, filt, w_rec>>
                  /\ entry' = EntryOf("ness")
  /\ UNCHANGED <<err, td, data, hs, fed, ret, th, thArg, kern, prior, obs, libVars>>

\* after the loop: self._td = self._smc2._td = None
HybFinish ==
  /\ pc = "loop" /\ err = "none" /\ idx = Len(data)
  /\ td' = [kind |-> "none", val |-> <<>>]
  /\ pc' = "done"
  /\ UNCHANGED <<yin, err, w_rec, filt, heap, steps, trace, entry, jitW, fed, rj,
                 data, idx, hs, switched, ior, disp, shakes, who, ret, th, thArg,
                 kern, prior, obs, libVars>>

\* state after NESSMC2(model, particles, handshake, nesskwargs, smc2kwargs)
InitHyb ==
  /\ \E hsArg \in HandshakeArgs, arg \in ThresholdArgs :
       /\ hs = HybInitHs(hsArg)
       /\ thArg = arg
       /\ th = [o \in Objs |-> CASE o = "smc2" -> HybSmc2Th(arg)
                                 [] o = "ness" -> NessInitTh("default")
                                 [] o = "hyb"  -> Smc2InitTh("default")]
  /\ kern = NessInitKernel("some")
  /\ pc = "new" /\ who = "hyb" /\ yin = 0 /\ err = "none" /\ ret = "loop"
  /\ w_rec = [o \in Objs |-> Zeros]
  /\ filt = [o \in Objs |-> 1]
  /\ heap = <<NewFilter(Particles, StateParticles, Zeros)>>
  /\ prior \in Priors
  /\ data \in HybRuns /\ obs = data
  /\ td = [kind |-> "tuple", val |-> <<>>]
  /\ idx = 0 /\ switched = FALSE /\ ior = 0 /\ disp = <<>> /\ shakes = <<>>
  /\ steps = 0 /\ trace = <<>> /\ entry = NoEntry /\ jitW = <<>> /\ fed = <<>>
  /\ rj = NoRj
  /\ LibIdle

HybStay == <<idx, hs, switched, ior, disp, shakes>>

NextHyb ==
  \/ HybInitialize
  \/ HybLongfilter
  \/ HybFilter
  \/ HybFinish
  \/ NessJitter /\ UNCHANGED hybVars
  \/ NessFilter /\ UNCHANGED hybVars
  \/ NessWeight /\ UNCHANGED hybVars
  \/ NessResample /\ UNCHANGED hybVars
  \/ Smc2Append /\ UNCHANGED HybStay
  \/ Smc2Filter /\ UNCHANGED HybStay
  \/ Smc2Weight /\ UNCHANGED HybStay
  \/ Smc2Check /\ UNCHANGED HybStay
  \/ Smc2Increase /\ UNCHANGED HybStay

SpecHyb == InitHyb /\ [][NextHyb]_vars

\* ----------------------------------------------- update before initialize
\* update(y) called on an algorithm whose initialize() has not run.  Neither
\* update tests for that; the first access to the uninitialized parameters or
\* inner filter raises.

\* NESS.update(y): the jitter reads the parameters, which have no values yet
EarlyNessUpdate(y) ==
  /\ pc = "new" /\ who = "ness" /\ ~Live("ness").init
  /\ call.op = "none"
  /\ call' = [op |-> "update", y |-> y, err |-> "UninitializedAccess"]
  /\ UNCHANGED <<algVars, mod, dst>>

\* SMC2.update(y): _td += (y,), then _filter.filter(y) raises
EarlySmc2Update(y) ==
  /\ pc = "new" /\ who = "smc2" /\ ~Live("smc2").init
  /\ Len(td.val) < MaxCalls
  /\ td' = [td EXCEPT !.val = IAdd("tuple", @, y)]
  /\ call' = [op |-> "update", y |-> y, err |-> "UninitializedAccess"]
  /\ UNCHANGED <<pc, who, yin, ret, err, w_rec, th, thArg, kern, filt, heap, prior, data,
                 idx, hs, switched, ior, disp, shakes, obs, steps, trace, entry, jitW, fed,
                 rj, mod, dst>>

InitEarly == InitNess \/ InitSmc2

NextEarly ==
  \/ \E k \in 1..MaxSteps : EarlyNessUpdate(obs[k])
  \/ \E k \in 1..MaxSteps : EarlySmc2Update(obs[k])
  \/ NessInitialize
  \/ Smc2Initialize /\ UNCHANGED <<idx, hs, switched, ior, disp, shakes>>

SpecEarly == InitEarly /\ [][NextEarly]_vars

\* --------------------------------------------------------------- BaseModel
\* the noise argument: a pair whose entries are a Distribution, None or
\* something else
NoiseKinds == {"dist", "none", "other"}
NoisePairs == {<<a, b>> : a \in NoiseKinds, b \in NoiseKinds}

\* the theta argument (alpha, sigma): each a constant or a prior with a
\* current natural value
ThetaEntries == {[kind |-> k, v |-> v] : k \in {"const", "prior"}, v \in {1, 2}}
ThetaArgs == {<<a, b>> : a \in ThetaEntries, b \in {e \in ThetaEntries : e.v = 1}}
               \cup {<<a, b>> : a \in {e \in ThetaEntries : e.v = 1}, b \in ThetaEntries}

\* Parameter(th): trainable when th is a prior
Parameter(t) == [trainable |-> t.kind = "prior", values |-> t.v]

\* the unconstrained view of a positive natural value (log) and back
Log2(v) == CHOOSE k \in 0..(4 * MaxCalls + 2) : 2 ^ k = v

Exp2(u) == 2 ^ u

\* the truth value of an entry of cases: a generator object is true
Truthy(c) == IF c.kind = "generator" THEN TRUE ELSE c.val

\* cases of BaseModel.__init__: a generator over isinstance(n, Distribution),
\* and isinstance(noise[-1], Distribution) and noise[0] is None
Cases(noise) ==
  <<[kind |-> "generator", items |-> [i \in DOMAIN noise |-> noise[i] = "dist"]],
    [kind |-> "bool", val |-> noise[Len(noise)] = "dist" /\ noise[1] = "none"]>>

\* any(cases)
AnyCases(noise) == \E i \in DOMAIN Cases(noise) : Truthy(Cases(noise)[i])

\* the model __init__ leaves behind: _theta is a generator that has yielded
\* nothing, the cache of theta_vals is empty
Constructed(theta, noise) ==
  [state |-> "ready", noise |-> noise, theta |-> theta, gen |-> "fresh",
   params |-> <<>>, cache |-> [set |-> FALSE], calls |-> 0]

\* iterating self.theta: a fresh generator makes and yields Parameter(th) for
\* every th; a spent one yields nothing
Yielded(m) ==
  IF m.gen = "fresh" THEN [i \in DOMAIN m.theta |-> Parameter(m.theta[i])] ELSE <<>>

Drained(m, ps) == [m EXCEPT !.gen = "spent", !.params = IF m.gen = "fresh" THEN ps ELSE @]

\* theta_dists: tuple(p for p in self.theta if p.trainable), as indices
TrainableOf(ps) == {i \in DOMAIN ps : ps[i].trainable}

\* func(p) of the callers: natural values are multiplied by 4, unconstrained
\* values are shifted by 1
Func(p, transformed) == IF transformed THEN Log2(p.values) + 1 ELSE 4 * p.values

\* p.t_values = r or p.values = r
Assigned(p, r, transformed) ==
  [p EXCEPT !.values = IF transformed THEN Exp2(r) ELSE r]

\* BaseModel(initial, funcs, theta, noise)
ModelConstruct ==
  /\ mod.state = "new"
  /\ IF ~AnyCases(mod.noise)
     THEN /\ mod' = [state |-> "failed", noise |-> mod.noise, theta |-> mod.theta]
          /\ call' = [op |-> "init", err |-> "ValueError"]
     ELSE /\ mod' = Constructed(mod.theta, mod.noise)
          /\ call' = [op |-> "init", err |-> "none"]
  /\ UNCHANGED <<dst, algVars>>

\* p_apply(func, transformed)
PApply(transformed) ==
  /\ mod.state = "ready" /\ mod.calls < MaxCalls
  /\ LET ps  == Yielded(mod)
         new == [i \in DOMAIN ps |->
                   IF ps[i].trainable
                   THEN Assigned(ps[i], Func(ps[i], transformed), transformed)
                   ELSE ps[i]]
     IN  /\ mod' = [Drained(mod, new) EXCEPT !.calls = @ + 1]
         /\ call' = [op |-> "p_apply", transformed |-> transformed,
                     applied |-> TrainableOf(ps),
                     results |-> [i \in TrainableOf(ps) |-> Func(ps[i], transformed)],
                     err |-> "none"]
  /\ UNCHANGED <<dst, algVars>>

\* theta_dists
ThetaDists ==
  /\ mod.state = "ready" /\ mod.calls < MaxCalls
  /\ LET ps == Yielded(mod)
     IN  /\ mod' = [Drained(mod, ps) EXCEPT !.calls = @ + 1]
         /\ call' = [op |-> "theta_dists", out |-> TrainableOf(ps), err |-> "none"]
  /\ UNCHANGED <<dst, algVars>>

\* theta_vals under lru_cache: the tuple computed by the first call is
\* returned by every later one
ThetaVals(m) ==
  IF m.cache.set THEN m.cache.vals
  ELSE [i \in DOMAIN Yielded(m) |-> Yielded(m)[i].values]

AfterThetaVals(m) ==
  IF m.cache.set THEN m
  ELSE [Drained(m, Yielded(m)) EXCEPT !.cache = [set |-> TRUE, vals |-> ThetaVals(m)]]

\* f(x, alpha, sigma) = alpha * x and g(x, alpha, sigma) = sigma take two
\* parameters: any other number of values is a TypeError
Arity == 2

FnFails(vals) == Len(vals) # Arity

F(x, vals) == vals[1] * x

G(x, vals) == vals[2]

\* the dimension is read from self.noise.mean
NdimFails(m) == m.noise[2] # "dist"

\* noise.log_prob(rescaled): the log-density of the noise at z = num/den,
\* and the number of factors 2 the density was divided by
LogProb(z) == [z |-> z, logjac |-> 0]

\* mean(x) and scale(x)
ModelMean(x) ==
  /\ mod.state = "ready" /\ mod.calls < MaxCalls
  /\ LET vals == ThetaVals(mod)
     IN  call' = IF FnFails(vals)
                 THEN [op |-> "mean", x |-> x, err |-> "TypeError"]
                 ELSE [op |-> "mean", x |-> x, out |-> F(x, vals), vals |-> vals,
                       err |-> "none"]
  /\ mod' = [AfterThetaVals(mod) EXCEPT !.calls = @ + 1]
  /\ UNCHANGED <<dst, algVars>>

\* weight(y, x)
ModelWeight(y, x) ==
  /\ mod.state = "ready" /\ mod.calls < MaxCalls
  /\ LET vals == ThetaVals(mod)
     IN  call' = IF FnFails(vals)
                 THEN [op |-> "weight", y |-> y, x |-> x, err |-> "TypeError"]
                 ELSE IF NdimFails(mod)
                 THEN [op |-> "weight", y |-> y, x |-> x, err |-> "AttributeError"]
                 ELSE [op |-> "weight", y |-> y, x |-> x, vals |-> vals,
                       out |-> LogProb(<<y - F(x, vals), G(x, vals)>>), err |-> "none"]
  /\ mod' = [AfterThetaVals(mod) EXCEPT !.calls = @ + 1]
  /\ UNCHANGED <<dst, algVars>>

\* p_map(func): iterates self.theta
PMap ==
  /\ mod.state = "ready" /\ mod.calls < MaxCalls
  /\ LET ps == Yielded(mod)
     IN  /\ mod' = [Drained(mod, ps) EXCEPT !.calls = @ + 1]
         /\ call' = [op |-> "p_map", out |-> Len(ps), err |-> "none"]
  /\ UNCHANGED <<dst, algVars>>

\* the samples argument: omitted, or a number of paths
SamplesArgs == {[given |-> FALSE], [given |-> TRUE, n |-> 2]}

\* shape of sample(steps, samples): (steps, ndim), extended by the tuple
\* ((samples,),) when samples is given
SampleShape(n, samples) ==
  <<[int |-> n], [int |-> 1]>>
    \o (IF samples.given THEN <<[tuple |-> <<samples.n>>]>> ELSE <<>>)

\* torch.zeros(shape) takes a tuple of ints
ZerosFails(shape) == \E i \in DOMAIN shape : "int" \notin DOMAIN shape[i]

\* the draws of the noise
EpsVals == {0, 1}

\* out[0] = i_sample(); out[i] = propagate(out[i-1])
RECURSIVE Trajectory(_, _, _)
Trajectory(n, vals, eps) ==
  IF n = 1 THEN <<0 + G(0, vals) * eps[1]>>
  ELSE LET out == Trajectory(n - 1, vals, eps)
       IN  Append(out, F(out[n - 1], vals) + G(out[n - 1], vals) * eps[n])

\* sample(steps, samples)
ModelSample(n, samples) ==
  /\ mod.state = "ready" /\ mod.calls < MaxCalls
  /\ LET vals == ThetaVals(mod)
         args == [op |-> "sample", steps |-> n, samples |-> samples]
     IN  IF NdimFails(mod)
         THEN /\ call' = args @@ [err |-> "AttributeError"]
              /\ mod' = [mod EXCEPT !.calls = @ + 1]
         ELSE IF ZerosFails(SampleShape(n, samples))
         THEN /\ call' = args @@ [err |-> "TypeError"]
              /\ mod' = [mod EXCEPT !.calls = @ + 1]
         ELSE /\ mod' = [AfterThetaVals(mod) EXCEPT !.calls = @ + 1]
              /\ IF FnFails(vals)
                 THEN call' = args @@ [err |-> "TypeError"]
                 ELSE IF mod.noise[1] # "dist"
                 THEN call' = args @@ [err |-> "AttributeError"]
                 ELSE \E eps \in [1..n -> EpsVals] :
                        call' = args @@ [err |-> "none", vals |-> vals, eps |-> eps,
                                         out |-> Trajectory(n, vals, eps),
                                         propagated |-> n - 1]
  /\ UNCHANGED <<dst, algVars>>

\* the arguments a model is constructed from
InitModel ==
  /\ \E noise \in NoisePairs, theta \in ThetaArgs :
       mod = [state |-> "new", noise |-> noise, theta |-> theta]
  /\ dst = [state |-> "none"] /\ call = NoCall
  /\ AlgIdle

NextModel ==
  \/ ModelConstruct
  \/ \E transformed \in BOOLEAN : PApply(transformed)
  \/ ThetaDists
  \/ PMap
  \/ \E x \in 1..2 : ModelMean(x)
  \/ \E y \in 0..1, x \in 1..2 : ModelWeight(y, x)
  \/ \E n \in 1..MaxSteps, samples \in SamplesArgs : ModelSample(n, samples)

SpecModel == InitModel /\ [][NextModel]_vars

\* ------------------------------------------------------------ Distribution
\* A Gamma(a, loc) distribution (continuous.py:221-245) and its stored
\* _values.  A value is a record: its Python type and its entries (one entry
\* for a scalar).

Locs == 1..2                                    \* the loc argument of Gamma

XVals == 0..3                                   \* natural values assigned

NoValues == [set |-> FALSE]

Value(t, v) == [set |-> TRUE, type |-> t, v |-> v]

Scalars(t, S) == {Value(t, <<x>>) : x \in S}

Arrays(S) == {Value("ndarray", <<x>>) : x \in S}
               \cup {Value("ndarray", <<x, y>>) : x \in S, y \in S}

\* isinstance(x, type(self._values)): numpy.float64 is a subclass of float
IsInstance(tx, ts) == tx = ts \/ (tx = "float64" /\ ts = "float")

\* Gamma.bounds(): (loc, inf)
DistBounds(d) == [low |-> d.loc, inf |-> TRUE]

AboveLow(x, b) == \A k \in DOMAIN x.v : x.v[k] >= b.low

InsideBounds(x, b) == AboveLow(x, b) /\ b.inf

\* Distribution.values setter: the distribution afterwards and the error
SetValues(d, x) ==
  IF ~d.values.set
  THEN [d |-> [d EXCEPT !.values = x], err |-> "none"]
  ELSE IF ~IsInstance(x.type, d.values.type)
  THEN [d |-> d, err |-> "AssertionError"]
  ELSE IF x.type = "ndarray" /\ Len(x.v) # Len(d.values.v)
  THEN [d |-> d, err |-> "AssertionError"]
  ELSE IF ~InsideBounds(x, DistBounds(d))
  THEN [d |-> d, err |-> "AssertionError"]
  ELSE [d |-> [d EXCEPT !.values = x], err |-> "none"]

\* the inverse of the Log transform, entry by entry
InverseTransform(t) == Value(t.type, [k \in DOMAIN t.v |-> Exp2(t.v[k])])

\* Gamma.rvs(size): loc + a non-negative draw per entry; a numpy scalar when
\* size is None
Rvs(d, g) ==
  Value(IF g.type = "none" THEN "float64" ELSE "ndarray",
        [k \in DOMAIN g.v |-> d.loc + g.v[k]])

Sizes == Scalars("none", 0..1) \cup {Value("ndarray", v) : v \in {<<0>>, <<1, 0>>}}

DistAssign(op, x) ==
  /\ LET r == SetValues(dst, x)
     IN  /\ dst' = r.d
         /\ call' = [op |-> op, x |-> x, before |-> dst.values, err |-> r.err]
  /\ UNCHANGED <<algVars, mod>>

ValuesSetter(x) ==
  /\ dst.state = "ready"
  /\ DistAssign("values", x)

TValuesSetter(t) ==
  /\ dst.state = "ready"
  /\ DistAssign("t_values", InverseTransform(t))

DistSample(g) ==
  /\ dst.state = "ready"
  /\ DistAssign("sample", Rvs(dst, g))

InitDist ==
  /\ \E loc \in Locs : dst = [state |-> "ready", loc |-> loc, values |-> NoValues]
  /\ mod = [state |-> "none"] /\ call = NoCall
  /\ AlgIdle

NextDist ==
  \/ \E x \in Scalars("float", XVals) \cup Arrays(XVals) : ValuesSetter(x)
  \/ \E t \in Scalars("float", 0..1) \cup Arrays(0..1) : TValuesSetter(t)
  \/ \E g \in Sizes : DistSample(g)

SpecDist == InitDist /\ [][NextDist]_vars

\* ---------------------------------------------------------- normalization
\* utils/normalization.py on log-weights in ln 2 units.  An entry is finite,
\* -inf, +inf or NaN; a result is a vector of fractions num[i] / den.

Dim == 3                 \* longest weight vector

Fin(v) == [k |-> "fin", v |-> v]
NInf == [k |-> "ninf", v |-> 0]
PInf == [k |-> "pinf", v |-> 0]
NaN == [k |-> "nan", v |-> 0]

LogWs == {Fin(0), Fin(0 - 1), Fin(0 - 2), NInf, PInf, NaN}

LogVecs == UNION {[1..n -> LogWs] : n \in 1..Dim}

LogMats == {<<r, s>> : r \in [1..2 -> LogWs], s \in [1..2 -> LogWs]}

Kinds(w) == {w[i].k : i \in DOMAIN w}

\* w.max(): NaN if an entry is NaN
TMax(w) ==
  IF "nan" \in Kinds(w) THEN NaN
  ELSE IF "pinf" \in Kinds(w) THEN PInf
  ELSE IF Kinds(w) = {"ninf"} THEN NInf
  ELSE Fin(CHOOSE m \in {w[i].v : i \in {j \in DOMAIN w : w[j].k = "fin"}} :
             \A i \in DOMAIN w : w[i].k = "fin" => w[i].v <= m)

\* a - m in floating point: inf - inf is NaN
TSub(a, m) ==
  IF a.k = "nan" \/ m.k = "nan" THEN NaN
  ELSE IF a.k = m.k /\ a.k # "fin" THEN NaN
  ELSE IF a.k = "ninf" \/ m.k = "pinf" THEN NInf
  ELSE IF a.k = "pinf" \/ m.k = "ninf" THEN PInf
  ELSE Fin(a.v - m.v)

\* the least finite entry of d, 0 if there is none
Floor(d) ==
  LET fs == {d[i].v : i \in {j \in DOMAIN d : d[j].k = "fin"}}
  IN  IF fs = {} THEN 0 ELSE CHOOSE m \in fs : \A v \in fs : m <= v

\* torch.exp(d), as numerators over the denominator 2 ^ (0 - Floor(d))
TExp(d) ==
  [i \in DOMAIN d |->
     IF d[i].k = "fin" THEN Fin(2 ^ (d[i].v - Floor(d)))
     ELSE IF d[i].k = "ninf" THEN Fin(0)
     ELSE d[i]]

\* reweighed.sum()
TSum(r) ==
  IF "nan" \in Kinds(r) THEN NaN
  ELSE IF "pinf" \in Kinds(r) THEN PInf
  ELSE Fin(SumSeq([i \in DOMAIN r |-> r[i].v]))

\* reweighed / reweighed.sum(), NaN entries set to 0
Ratios(r) ==
  LET s  == TSum(r)
      ok == s.k = "fin" /\ s.v # 0
  IN  [num |-> [i \in DOMAIN r |-> IF ok /\ r[i].k = "fin" THEN r[i].v ELSE 0],
       den |-> IF ok THEN s.v ELSE 1]

Uniform(n) == [num |-> [i \in 1..n |-> 1], den |-> n]

BadSumsToZero(q) == FALSE

\* normalized.sum() == 0
SumsToZero(q) == SumSeq(q.num) = 0

Normalized(w) == Ratios(TExp([i \in DOMAIN w |-> TSub(w[i], TMax(w))]))

\* _vector(w)
Vector(w) ==
  LET normalized == Normalized(w)
  IN  IF SumsToZero(normalized) THEN Uniform(Len(w)) ELSE normalized

\* _matrix(w)
Matrix(w) ==
  LET normalized == [r \in DOMAIN w |-> Normalized(w[r])]
      mask       == {r \in DOMAIN w : SumsToZero(normalized[r])}
      n          == Len(w[1])
  IN  [r \in DOMAIN w |-> IF r \in mask THEN Uniform(n) ELSE normalized[r]]

\* normalize(w)
Normalize ==
  /\ call.op = "args"
  /\ call' = [op |-> "normalize", dim |-> call.dim, w |-> call.w,
              out |-> IF call.dim > 1 THEN Matrix(call.w) ELSE Vector(call.w)]
  /\ UNCHANGED <<algVars, mod, dst>>

InitNorm ==
  /\ \/ \E w \in LogVecs : call = [op |-> "args", dim |-> 1, w |-> w]
     \/ \E w \in LogMats : call = [op |-> "args", dim |-> 2, w |-> w]
  /\ mod = [state |-> "none"] /\ dst = [state |-> "none"]
  /\ AlgIdle

NextNorm == Normalize

SpecNorm == InitNorm /\ [][NextNorm]_vars

\* ------------------------------------------------------------- disc_jitter
\* The shrinkage kernel of NESS on exact fractions <<num, den>>.  A standard
\* deviation is carried as its square, so that no root is taken of the
\* spread of the particles.

FracEq(p, q) == p[1] * q[2] = q[1] * p[2]

\* the root of a fraction of squares
SqrtFrac(p) ==
  <<CHOOSE r \in 0..p[1] : r * r = p[1], CHOOSE r \in 0..p[2] : r * r = p[2]>>

\* the shrinkage argument of NESS
Shrinkages == {<<5, 7>>, <<5, 9>>}

\* NESS.__init__: a = (3 * shrinkage - 1) / 2 / shrinkage
InitA(s) == <<3 * s[1] - s[2], 2 * s[1]>>

\* NESS.__init__: h = sqrt(1 - a ** 2)
InitH(s) == LET a == InitA(s) IN SqrtFrac(<<a[2] * a[2] - a[1] * a[1], a[2] * a[2]>>)

\* disc_jitter: a = sqrt(1 - h ** 2)
ShrinkA(h) == SqrtFrac(<<h[2] * h[2] - h[1] * h[1], h[2] * h[2]>>)

\* weighted_mean = (transformed * normalized).sum(0)
WeightedMean(t, nw) == <<SumSeq([i \in DOMAIN t |-> t[i] * nw.num[i]]), nw.den>>

\* means = a * transformed + (1 - a) * weighted_mean
Means(a, t, wm) ==
  [i \in DOMAIN t |-> <<a[1] * t[i] * wm[2] + (a[2] - a[1]) * wm[1], a[2] * wm[2]>>]

\* ((transformed - weighted_mean) ** 2).mean()
MeanSquare(t, wm) ==
  <<SumSeq([i \in DOMAIN t |-> (t[i] * wm[2] - wm[1]) * (t[i] * wm[2] - wm[1])]),
    Len(t) * wm[2] * wm[2]>>

\* std = h * sqrt(...), squared
Std2(h, t, wm) ==
  LET ms == MeanSquare(t, wm) IN <<h[1] * h[1] * ms[1], h[2] * h[2] * ms[2]>>

\* (1 - i) * t_values + i * Normal(means, std).sample(): per particle the
\* value kept, or the proposal the new value is drawn from
DiscJittered(w, t, h, ind) ==
  LET normalized == Vector([i \in DOMAIN w |-> Fin(w[i])])
      wm         == WeightedMean(t, normalized)
      means      == Means(ShrinkA(h), t, wm)
      std2       == Std2(h, t, wm)
  IN  [i \in DOMAIN t |->
         IF ind[i] = 0 THEN [kept |-> TRUE, value |-> t[i]]
         ELSE [kept |-> FALSE, mean |-> means[i], std2 |-> std2]]

\* kernel(u, w) = disc_jitter(u, p, w, h=self.h, i=self._index.sample(shape))
DiscJitter ==
  /\ call.op = "args"
  /\ call' = [call EXCEPT !.op = "disc_jitter",
                          !.out = DiscJittered(call.w, call.t, InitH(call.shrinkage), call.i)]
  /\ UNCHANGED <<algVars, mod, dst>>

\* the unconstrained values, log-weights and indicators the kernel is given
InitJitter ==
  /\ \E s \in Shrinkages, t \in [IdxM -> 0..2], w \in [IdxM -> {0, 0 - 1, 0 - 2}],
        i \in [IdxM -> {0, 1}] :
       call = [op |-> "args", shrinkage |-> s, t |-> t, w |-> w, i |-> i, out |-> <<>>]
  /\ mod = [state |-> "none"] /\ dst = [state |-> "none"]
  /\ AlgIdle

NextJitter == DiscJitter

SpecJitter == InitJitter /\ [][NextJitter]_vars

\* ---------------------------------------------- LinearGaussianObservations
\* proposals/linear.py, weight(y, xn, xo) for the model y = C x + sigma_o eta,
\* x = f(xo) + sigma_h eps.  A one-dimensional model passes numbers, a
\* multi-dimensional one vectors and the matrix C as a sequence of rows.

Dot(a, b) == SumSeq([k \in DOMAIN a |-> a[k] * b[k]])

\* observable.mean(fx) of the linear observation model: C fx
ObsMean1d(c, fx) == c * fx

ObsMeanNd(c, fx) == [r \in DOMAIN c |-> Dot(c[r], fx)]

\* std ** 2 of the branch hidden_ndim < 2: h_var + c ** 2 * o_var
Var1d(c, h_var, o_var) == h_var + c * c * o_var

\* temp = matmul(tc, h_var.unsqueeze(-1) * tc.t()); cov = diag(o_var) + temp
CovNd(tc, h_var, o_var) ==
  [r \in DOMAIN tc |->
     [s \in DOMAIN tc |->
        (IF r = s THEN o_var[r] ELSE 0)
          + SumSeq([k \in DOMAIN h_var |-> tc[r][k] * h_var[k] * tc[s][k]])]]

\* weight of a one-dimensional hidden state: Normal(m, std).log_prob(y)
Weight1d(a) ==
  [kind |-> "normal", y |-> a.y, mean |-> ObsMean1d(a.c, a.fx),
   var |-> Var1d(a.c, a.sh * a.sh, a.so * a.so)]

\* weight of a multi-dimensional hidden state: MultivariateNormal when the
\* covariance has more than one row, Normal(m, cov[0, 0].sqrt()) otherwise
WeightNd(a) ==
  LET cov == CovNd(a.c, [k \in DOMAIN a.sh |-> a.sh[k] * a.sh[k]],
                   [r \in DOMAIN a.so |-> a.so[r] * a.so[r]])
      m   == ObsMeanNd(a.c, a.fx)
  IN  IF Len(cov) > 1
      THEN [kind |-> "mvn", y |-> a.y, mean |-> m, cov |-> cov]
      ELSE [kind |-> "normal", y |-> a.y, mean |-> m, var |-> cov[1][1]]

\* weight(y, xn, xo)
ProposalWeight ==
  /\ call.op = "args"
  /\ call' = [call EXCEPT !.op = "weight",
                          !.out = IF call.hidden_ndim < 2 THEN Weight1d(call)
                                  ELSE WeightNd(call)]
  /\ UNCHANGED <<algVars, mod, dst>>

Args1d ==
  {[op |-> "args", hidden_ndim |-> 1, c |-> c, sh |-> sh, so |-> so, fx |-> fx, y |-> y,
    out |-> <<>>] : c \in 0..2, sh \in 1..2, so \in 1..2, fx \in 0..1, y \in 0..1}

ArgsNd ==
  {[op |-> "args", hidden_ndim |-> 2, c |-> c, sh |-> sh,
    so |-> [r \in DOMAIN c |-> so], fx |-> fx, y |-> [r \in DOMAIN c |-> 0],
    out |-> <<>>] :
     c \in {<<<<1, 2>>>>, <<<<1, 0>>, <<1, 2>>>>}, sh \in {<<1, 1>>, <<1, 2>>},
     so \in 1..2, fx \in {<<0, 1>>, <<1, 1>>}}

InitLinear ==
  /\ \/ call \in Args1d
     \/ call \in ArgsNd
  /\ mod = [state |-> "none"] /\ dst = [state |-> "none"]
  /\ AlgIdle

NextLinear == ProposalWeight

SpecLinear == InitLinear /\ [][NextLinear]_vars

\* ------------------------------------------------------------ properties
Last(h) == h[Len(h)]

Returned(o) == pc = "idle" /\ who = o /\ steps > 0 /\ err = "none"

IsPrefix(a, b) == Len(a) <= Len(b) /\ \A k \in 1..Len(a) : a[k] = b[k]

\* ess(w) < num/den * M, written out for the statements below
EssUnder(w, num, den) ==
  LET u  == [i \in IdxM |-> 2 ^ (w[i] - MinOf(w))]
      s1 == SumSeq(u)
      s2 == SumSeq([i \in IdxM |-> u[i] * u[i]])
  IN  den * s1 * s1 < num * Particles * s2

\* C1: NESS.update runs jitter, one filter step, the weight update and the
\* ESS check in this order, each once; the jitter is given the outer
\* log-weights of the call's entry, and the filter history grows by one.
C1_NessStageOrder ==
  who = "ness" /\ pc # "new" =>
    /\ \E last \in {"resample", "keep"} :
         IsPrefix(trace, <<"jitter", "filter", "weight", last>>)
    /\ (pc = "idle" /\ steps > 0 => Len(trace) = 4)
    /\ (pc # "idle" => pc = <<"jitter", "filter", "weight", "resample">>[Len(trace) + 1])
    /\ (Len(trace) >= 1 => jitW = entry.w)
    /\ Len(Live("ness").s_ll) = entry.hist + (IF Len(trace) >= 2 THEN 1 ELSE 0)
    /\ (Len(trace) < 3 => w_rec["ness"] = entry.w)
    /\ (Len(trace) >= 3 /\ pc # "idle" =>
          w_rec["ness"] = VecAdd(entry.w, Last(Live("ness").s_ll)))

C1_Witness ==
  /\ Returned("ness") /\ steps = 2
  /\ entry.w # Zeros
  /\ trace = <<"jitter", "filter", "weight", "resample">>

\* C2: after NESS.update returns, with W' the entry weights plus the last
\* incremental log-likelihood: the outer resample ran and all weights are 0
\* iff ESS(W') < threshold*M, otherwise the weights are W'; the threshold is
\* 0.9 when none was given.
C2_NessResampleRule ==
  Returned("ness") =>
    LET Wp  == VecAdd(entry.w, Last(Live("ness").s_ll))
        thr == IF thArg = "default" THEN <<9, 10>> ELSE thArg
    IN  IF EssUnder(Wp, thr[1], thr[2])
        THEN Last(trace) = "resample" /\ w_rec["ness"] = Zeros
        ELSE Last(trace) = "keep" /\ w_rec["ness"] = Wp

C2_Witness ==
  /\ Returned("ness") /\ thArg = "default"
  /\ Last(trace) = "resample"
  /\ Last(Live("ness").s_ll) # Zeros
  /\ w_rec["ness"] = Zeros

C2_WitnessKeep ==
  /\ Returned("ness") /\ thArg = "default"
  /\ Last(trace) = "keep"
  /\ w_rec["ness"] # Zeros

\* the outer weights after the increment of the running SMC2 step: the entry
\* weights plus the incremental log-likelihood the filter step recorded
Smc2Incremented ==
  VecAdd(entry.w, Last(IF rj.done THEN rj.pre.s_ll ELSE Live("smc2").s_ll))

\* C3: SMC2.update appends y, advances the inner filter by one step, adds the
\* last incremental log-likelihood, and then rejuvenates iff
\* ESS(log_W) < threshold*M (0.2 when no threshold was given); without
\* rejuvenation the parameters, the filter object and the incremented
\* weights are kept.
C3_Smc2StepRule ==
  who = "smc2" /\ pc # "new" /\ err = "none" =>
    /\ \E last \in {"rejuvenate", "keep"} :
         \/ IsPrefix(trace, <<"append", "filter", "weight", last>>)
         \/ trace = <<"append", "filter", "weight", "rejuvenate", "increase">>
    /\ (pc \notin {"idle", "increase"} =>
          pc = <<"append", "filter", "weight", "check">>[Len(trace) + 1])
    /\ (Len(trace) >= 1 => Len(td.val) = steps)
    /\ (Len(trace) < 4 =>
          Len(Live("smc2").s_ll) = entry.hist + (IF Len(trace) >= 2 THEN 1 ELSE 0))
    /\ (Len(trace) = 3 => w_rec["smc2"] = VecAdd(entry.w, Last(Live("smc2").s_ll))
                          /\ fed = SubSeq(obs, 1, steps))
    /\ (pc = "idle" /\ steps > 0 =>
          LET thr == IF thArg = "default" THEN <<1, 5>> ELSE thArg
          IN  /\ Len(trace) >= 4
              /\ trace[4] = "rejuvenate" <=> EssUnder(Smc2Incremented, thr[1], thr[2])
              /\ trace[4] = "keep" =>
                   /\ w_rec["smc2"] = Smc2Incremented
                   /\ filt["smc2"] = entry.fid
                   /\ Live("smc2").theta = entry.theta
                   /\ Len(Live("smc2").s_ll) = entry.hist + 1)

C3_Witness ==
  /\ Returned("smc2") /\ steps = 2
  /\ trace = <<"append", "filter", "weight", "keep">>
  /\ w_rec["smc2"] # Zeros /\ w_rec["smc2"] # entry.w

C3_WitnessRejuvenate ==
  /\ Returned("smc2")
  /\ trace[4] = "rejuvenate"
  /\ \E i \in IdxM : rj.toaccept[i]

C3_WitnessDefault ==
  /\ Returned("smc2") /\ thArg = "default" /\ steps = MaxSteps
  /\ Smc2Incremented # Zeros

\* C4: after k updates of a new SMC2 the buffer is (y_1, ..., y_k) in arrival
\* order; every update appends one element, and rejuvenation and the
\* doubling of the state particles leave the buffer as it is.
C4_BufferIsArrivals ==
  who = "smc2" /\ td.kind = "tuple" =>
    td.val = SubSeq(obs, 1, IF pc = "append" THEN steps - 1 ELSE steps)

C4_Witness ==
  /\ Returned("smc2") /\ steps = 2
  /\ rj.done /\ rj.increased
  /\ td.val = <<obs[1], obs[2]>> /\ obs[1] # obs[2]

C8_WitnessAccepted ==
  /\ Returned("smc2") /\ rj.done /\ ~rj.increased
  /\ \A i \in IdxM : rj.toaccept[i]
  /\ w_rec["smc2"] = Zeros

\* C9: with a particle inner filter of (M, N) particles a rejuvenation
\* doubles the state particles iff fewer than 0.2*M candidates were accepted;
\* then the inner filter is a new object with (M, 2N) particles and one
\* history entry per buffered observation, otherwise N and the filter object
\* are unchanged.
C9_DoublingRule ==
  Returned("smc2") /\ rj.done /\ rj.pre.kind = "particle" =>
    LET accepted == Cardinality({i \in IdxM : rj.toaccept[i]})
        f        == Live("smc2")
    IN  IF 5 * accepted < Particles
        THEN /\ rj.increased
             /\ filt["smc2"] # rj.fid
             /\ f.particles = <<Particles, 2 * rj.pre.particles[2]>>
             /\ f.kind = "particle" /\ f.init
             /\ Len(f.s_ll) = Len(td.val)
             /\ heap[rj.fid].particles = rj.pre.particles
        ELSE /\ ~rj.increased
             /\ filt["smc2"] = rj.fid
             /\ f.particles = rj.pre.particles

C9_Witness ==
  /\ Returned("smc2") /\ rj.done /\ rj.pre.kind = "particle"
  /\ rj.increased /\ steps = 2
  /\ Live("smc2").particles[2] = 2 * StateParticles
  /\ Len(Live("smc2").s_ll) = 2

C9_WitnessTwice ==
  /\ Returned("smc2") /\ rj.done /\ rj.increased
  /\ Live("smc2").particles[2] = 4 * StateParticles

C9_WitnessKept ==
  /\ Returned("smc2") /\ rj.done /\ rj.pre.kind = "particle"
  /\ ~rj.increased /\ Live("smc2").particles[2] = StateParticles

\* C10: candidate i is accepted iff log(u_i) < (total log-likelihood of the
\* candidate) - (total log-likelihood of ancestor inds[i]) + (log prior of
\* the candidate) - (log prior of the resampled current parameters) + K_i,
\* K_i the proposal log-density at the current parameters minus that at the
\* candidate; accepted indices take the candidate's particle, all others
\* keep the resampled one.
C10_AcceptanceRule ==
  who = "smc2" /\ rj.done =>
    LET pre  == rj.pre
        anc  == rj.inds
        total(h, i) == SumSeq([t \in DOMAIN h |-> h[t][i]])
        rhs(i) == total(rj.clls, i) - total(pre.s_ll, anc[i])
                  + prior[rj.cand[i]] - prior[pre.theta[anc[i]]]
                  + (rj.lq[pre.theta[anc[i]]] - rj.lq[rj.cand[i]])
        acc(i) == rj.logu[i] < rhs(i)
        f    == heap[rj.fid]
    IN  \A i \in IdxM :
          /\ rj.toaccept[i] <=> acc(i)
          /\ f.theta[i] = IF acc(i) THEN rj.cand[i] ELSE pre.theta[anc[i]]
          /\ \A t \in DOMAIN f.s_ll :
               f.s_ll[t][i] = IF acc(i) THEN rj.clls[t][i] ELSE pre.s_ll[t][anc[i]]

C10_Witness ==
  /\ who = "smc2" /\ rj.done /\ steps = 2
  /\ \E i, j \in IdxM : rj.toaccept[i] /\ ~rj.toaccept[j]
  /\ \E i \in IdxM : rj.inds[i] # i
  /\ \E i \in IdxM : rj.lq[rj.pre.theta[rj.inds[i]]] # rj.lq[rj.cand[i]]

\* C11: an outer resample of NESS leaves every history record written at an
\* earlier step as it was (length, contents, order); the history only grows,
\* by exactly one entry per update.
C11_ResampleKeepsHistory ==
  who = "ness" /\ pc # "new" =>
    LET h == Live("ness").s_ll
    IN  /\ IsPrefix(entry.s_ll, h)
        /\ Len(h) = Len(entry.s_ll) + (IF Len(trace) >= 2 THEN 1 ELSE 0)
        /\ (Len(trace) >= 2 => Len(h) = steps)

C11_Witness ==
  /\ Returned("ness") /\ steps = MaxSteps
  /\ Last(trace) = "resample"
  /\ \E i, j \in IdxM : entry.s_ll[1][i] # entry.s_ll[1][j]
  /\ Live("ness").theta # entry.theta

\* C12: every call of p_apply applies fn once to each trainable parameter
\* of the model and assigns the result to it (to the transformed value when
\* transformed is true), whatever was called on the model before.
C12_PApplyReachesEveryTrainable ==
  call.op = "p_apply" =>
    LET trainable == {i \in DOMAIN mod.theta : mod.theta[i].kind = "prior"}
    IN  /\ call.applied = trainable
        /\ \A i \in trainable :
             mod.params[i].values =
               (IF call.transformed THEN Exp2(call.results[i]) ELSE call.results[i])

\* C13: a model is constructed only from a noise pair whose entries are all
\* Distributions, or whose first entry is None and last a Distribution; any
\* other noise makes the constructor fail with ValueError.
C13_RejectsNonDistributions ==
  LET ok == \/ \A i \in DOMAIN mod.noise : mod.noise[i] = "dist"
            \/ mod.noise[1] = "none" /\ mod.noise[Len(mod.noise)] = "dist"
  IN  /\ mod.state = "ready" => ok
      /\ mod.state = "failed" => ~ok /\ call.err = "ValueError"
      /\ call.op = "init" /\ ~ok => mod.state = "failed"

\* C16: for a one-dimensional process weight(y, x) is the log-density of y
\* under the noise relocated to f(x) and rescaled by g(x): the noise
\* log-density at (y - f(x)) / g(x), minus log g(x).
C16_WeightIsConditionalLogDensity ==
  call.op = "weight" /\ call.err = "none" =>
    LET loc   == F(call.x, call.vals)
        scale == G(call.x, call.vals)
    IN  /\ call.out.z[1] * scale = (call.y - loc) * call.out.z[2]
        /\ call.out.logjac = Log2(scale)

\* C17: sample(steps, samples) returns steps entries, the first a draw of
\* i_sample and each later one propagate of the entry before it, with
\* samples omitted and with samples an integer number of paths.
C17_SampleReturnsTrajectory ==
  call.op = "sample" /\ mod.noise = <<"dist", "dist">> =>
    /\ call.err = "none"
    /\ Len(call.out) = call.steps
    /\ call.propagated = call.steps - 1
    /\ call.out[1] = G(0, call.vals) * call.eps[1]
    /\ \A t \in 2..call.steps :
         call.out[t] = F(call.out[t - 1], call.vals)
                       + G(call.out[t - 1], call.vals) * call.eps[t]

\* C14: assigning the natural values of a Distribution (values setter,
\* t_values setter, sample) fails whenever the new value lies outside
\* bounds(), the first assignment included, and a failed assignment leaves
\* the stored value unchanged; a value inside the bounds with the type and
\* shape of the stored one is accepted and becomes the stored value.
C14_OutOfBoundsAlwaysRejected ==
  call.op \in {"values", "t_values", "sample"} =>
    /\ ~InsideBounds(call.x, DistBounds(dst)) => call.err # "none"
    /\ call.err # "none" => dst.values = call.before
    /\ (/\ InsideBounds(call.x, DistBounds(dst))
        /\ call.before.set
        /\ call.before.type = call.x.type
        /\ Len(call.before.v) = Len(call.x.v))
         => call.err = "none" /\ dst.values = call.x

\* C15: normalize(log_w) returns non-negative weights that sum to 1 for
\* every log-weight vector: weights proportional to exp(log_w) when the
\* largest entry is finite, the uniform weights 1/N when the normalisation
\* degenerates (all entries -inf, or a NaN or +inf entry).  For a 2-D input
\* each row gets the weights it would get alone.
RowNormalized(w, q) ==
  /\ Len(q.num) = Len(w) /\ q.den > 0
  /\ \A i \in DOMAIN w : q.num[i] >= 0
  /\ SumSeq(q.num) = q.den
  /\ IF TMax(w).k = "fin"
     THEN \A i, j \in DOMAIN w :
            /\ w[i].k = "ninf" => q.num[i] = 0
            /\ w[i].k = "fin" /\ w[j].k = "fin" =>
                 q.num[i] * 2 ^ (w[j].v - Floor(w)) = q.num[j] * 2 ^ (w[i].v - Floor(w))
     ELSE \A i \in DOMAIN w : q.num[i] = 1 /\ q.den = Len(w)

C15_NormalizeSumsToOne ==
  call.op = "normalize" =>
    IF call.dim = 1 THEN RowNormalized(call.w, call.out)
    ELSE \A r \in DOMAIN call.w :
           RowNormalized(call.w[r], call.out[r]) /\ call.out[r] = Vector(call.w[r])

C15_Witness ==
  /\ call.op = "normalize" /\ call.dim = 2
  /\ Kinds(call.w[1]) = {"ninf"}
  /\ call.out[1] = Uniform(2)
  /\ Kinds(call.w[2]) = {"fin"} /\ call.w[2][1] # call.w[2][2]
  /\ call.out[2].num[1] # call.out[2].num[2]

\* C18: update(y) on a NESS or SMC2 that has not been initialized fails with
\* UninitializedAccess instead of processing y: the call leaves no trace of y
\* in the algorithm (buffer, weights, inner filter).
C18_UpdateBeforeInitializeRefused ==
  call.op = "update" =>
    /\ call.err = "UninitializedAccess"
    /\ TdVals = <<>> /\ fed = <<>> /\ steps = 0
    /\ \A o \in Objs : w_rec[o] = Zeros
    /\ \A f \in DOMAIN heap : heap[f].s_ll = <<>>

\* C19 (as stated): in every SMC2 update the rejuvenation happens before the
\* inner filter is propagated on the new observation and before the outer
\* log-weights are updated.
C19_RejuvenateBeforePropagate ==
  who = "smc2" /\ pc # "new" =>
    \A i, j \in DOMAIN trace :
      trace[i] = "rejuvenate" /\ trace[j] \in {"filter", "weight"} => i < j

\* C19 (amended): in every SMC2 update that rejuvenates, the rejuvenation
\* comes after y was appended to the buffer, after the inner filter was
\* propagated on y and after the outer log-weights were updated with the
\* incremental log-likelihood of y; the filter it starts from already holds
\* the record of y.
C19_RejuvenateAfterWeight ==
  who = "smc2" /\ pc # "new" =>
    \A i \in DOMAIN trace :
      trace[i] = "rejuvenate" =>
        /\ SubSeq(trace, 1, i - 1) = <<"append", "filter", "weight">>
        /\ rj.done /\ Len(rj.pre.s_ll) = entry.hist + 1
        /\ Last(TdVals) = yin /\ Last(fed) = yin

C19_Witness ==
  /\ Returned("smc2") /\ steps = MaxSteps /\ rj.done
  /\ trace = <<"append", "filter", "weight", "rejuvenate">>
  /\ Len(rj.pre.s_ll) = steps /\ Last(fed) = obs[steps]

\* C20: in NESSMC2, at every point between steps (after construction, after
\* any SMC2 step, one that doubled the state particles included, after the
\* handshake, after any NESS step) the _filter of the hybrid, of the NESS
\* wrapper and of the SMC2 wrapper refer to the same inner filter object.
C20_OneInnerFilter ==
  pc \in {"new", "idle", "loop", "done"} =>
    filt["hyb"] = filt["smc2"] /\ filt["ness"] = filt["smc2"]

\* C21: after p_apply has replaced the value of a trainable parameter, every
\* later call of mean, weight or sample (i_sample, propagate) made without a
\* params override evaluates f and g at the parameters' current values.
C21_ReadsCurrentValues ==
  /\ call.op \in {"mean", "weight", "sample"}
  /\ mod.noise = <<"dist", "dist">>
  /\ call.op = "sample" => ~call.samples.given
  /\ \E i \in DOMAIN mod.params : mod.params[i].values # mod.theta[i].v
  => /\ call.err = "none"
     /\ call.vals = [i \in DOMAIN mod.params |-> mod.params[i].values]

\* C22: in the discrete jitter kernel a particle with indicator 0 keeps its
\* unconstrained value, and a particle with indicator 1 gets the proposal of
\* mean a*theta + (1-a)*theta_bar and standard deviation h*sqrt(Var(theta)),
\* theta_bar = sum_i w_i*theta_i and Var(theta) = sum_i w_i*(theta_i -
\* theta_bar)^2 under the normalized outer weights w.
C22_ShrinkageProposal ==
  call.op = "disc_jitter" =>
    LET t   == call.t
        u   == [i \in DOMAIN t |-> 2 ^ (call.w[i] - MinOf(call.w))]
        W   == SumSeq(u)
        S   == SumSeq([i \in DOMAIN t |-> u[i] * t[i]])
        var == <<SumSeq([i \in DOMAIN t |-> u[i] * (W * t[i] - S) * (W * t[i] - S)]),
                 W * W * W>>
        h   == InitH(call.shrinkage)
        a   == InitA(call.shrinkage)
    IN  \A i \in DOMAIN t :
          IF call.i[i] = 0
          THEN call.out[i] = [kept |-> TRUE, value |-> t[i]]
          ELSE /\ ~call.out[i].kept
               /\ FracEq(call.out[i].mean,
                         <<a[1] * t[i] * W + (a[2] - a[1]) * S, a[2] * W>>)
               /\ FracEq(call.out[i].std2, <<h[1] * h[1] * var[1], h[2] * h[2] * var[2]>>)

\* C23: for a one-dimensional hidden state weight(y, x_new, x_prev) is the
\* log-density at y of Normal(c*f(x_prev), c^2*sigma_h^2 + sigma_o^2), and
\* that is what the multi-dimensional branch gives in dimension one.
C23_PredictiveDensity ==
  call.op = "weight" /\ call.hidden_ndim = 1 =>
    LET nd == WeightNd([call EXCEPT !.c = <<<<call.c>>>>, !.sh = <<call.sh>>,
                                    !.so = <<call.so>>, !.fx = <<call.fx>>])
    IN  /\ call.out.kind = "normal" /\ call.out.y = call.y
        /\ call.out.mean = call.c * call.fx
        /\ call.out.var = call.c * call.c * call.sh * call.sh + call.so * call.so
        /\ nd.kind = "normal" /\ nd.mean = <<call.out.mean>> /\ nd.var = call.out.var

\* C5: NESSMC2.longfilter hands the inner filter the observations in index
\* order, each once, and the value handed over at step i is the original
\* data[i]: the run leaves the elements of data as they were given.
C5_HandsOverOriginalData ==
  /\ \A i \in 1..Len(fed) : fed[i] = obs[i]
  /\ data = obs
  /\ (pc = "done" => Len(fed) = Len(obs))

\* C6: in a longfilter run over T observations each observation is
\* dispatched to one algorithm: to SMC2 while the number of observations
\* processed before it is below handshake*T, to NESS from then on; after a
\* dispatch to NESS there is no dispatch to SMC2.
C6_DispatchSchedule ==
  /\ Len(disp) = idx
  /\ \A i \in 1..Len(disp) :
       disp[i] = (IF (i - 1) * hs[2] < hs[1] * Len(obs) THEN "smc2" ELSE "ness")
  /\ \A i, j \in 1..Len(disp) : i < j /\ disp[i] = "ness" => disp[j] = "ness"
  /\ (pc = "done" => Len(disp) = Len(obs))

C6_Witness ==
  /\ pc = "done" /\ Len(obs) = 3
  /\ disp = <<"smc2", "smc2", "ness">>

C6_WitnessAllSmc2 ==
  /\ pc = "done" /\ Len(obs) = 3
  /\ disp = <<"smc2", "smc2", "smc2">>

\* C7: the handshake resample is done once, at the first call dispatched to
\* NESS and before that NESS step runs; _switched is False before it and
\* True ever after, and no later call repeats the handshake.
C7_SingleHandshake ==
  LET toNess == {i \in 1..Len(disp) : disp[i] = "ness"}
  IN  /\ Len(shakes) <= 1
      /\ switched <=> toNess # {}
      /\ switched <=> shakes # <<>>
      /\ (toNess # {} => \A i \in toNess : shakes[1] <= i)
      /\ (shakes # <<>> => shakes[1] \in toNess)
      /\ (shakes # <<>> /\ idx = shakes[1] /\ pc # "loop" =>
            /\ \/ trace = <<>> /\ pc = "jitter"
               \/ trace # <<>> /\ trace[1] = "jitter"
            /\ filt["ness"] = filt["smc2"])

C7_Witness ==
  /\ pc = "done" /\ switched
  /\ disp = <<"smc2", "ness", "ness">>
  /\ shakes = <<2>>

====
